---- MODULE Spec2Model ----
(***************************************************************************)
(* Model of the eom crate's Lyapunov analysis (src/src/lyapunov.rs) and of *)
(* its TimeSeries adaptor (src/src/adaptor.rs).                            *)
(*                                                                         *)
(* State vectors are sequences of small integers.  The dense linear        *)
(* algebra kernels (qr, solve_upper, normalize, dot) are external          *)
(* primitives: their results are kept as uninterpreted terms, so that two  *)
(* results are equal exactly when they were computed from the same         *)
(* arguments, and their failures (Err) are nondeterministic outcomes.      *)
(***************************************************************************)
EXTENDS Integers, Sequences, FiniteSets

\* ---------------------------------------------------------------- bounds
MaxDuration == 20       \* largest `duration` argument tried
MaxNext == 3            \* largest number of advances of one TimeSeries
Modulus == 3            \* entries of a state vector are 0 .. Modulus-1

Dims == {1, 2}          \* lengths n of the state vectors tried
Alphas == {0, 1}        \* perturbation scales passed to exponents / clv
DotAlphas == {-1, 0, 1} \* perturbation scales of the stand-alone Jacobian
DxEntries == {-1, 0, 1} \* entries of a direction vector dx

\* ------------------------------------------------- the TimeEvolution trait
\* Two implementors of the capability: a componentwise shift (every orbit has
\* period Modulus) and a mixing map that is not injective and fixes 0.
Teos == {[map |-> "shift", dt |-> 1], [map |-> "mix", dt |-> 2]}

States == UNION {[1..n -> 0..(Modulus - 1)] : n \in Dims}

\* teo.iterate(x): one application of the capability.
Advance(t, x) ==
    LET n == Len(x) IN
    IF t.map = "shift"
    THEN [i \in 1..n |-> (x[i] + 1) % Modulus]
    ELSE [i \in 1..n |-> (x[i] + x[(i % n) + 1]) % Modulus]

\* teo.get_dt()
GetDt(t) == t.dt

\* ---------------------------------------------------------------- state
VARIABLES
    teo, x0,            \* the caller's capability and initial state
    \* adaptor.rs: TimeSeries
    tsState,            \* TimeSeries.state
    tsEmitted,          \* the items next() has returned so far, in order
    tsCallsAt,          \* tsCallsAt[k]: advances done when item k was returned
    tsCalls,            \* advances this TimeSeries has done
    tsDirect,           \* how many of them were direct calls of iterate()
    \* lyapunov.rs: one call of exponents or clv
    callee, alpha, duration,
    pc,                 \* "idle", "forward", "backward", "returned", "panicked"
    ts,                 \* the state of itertools::iterate
    q,                  \* the state of the forward scan
    skip, take,         \* what .skip(..) and .take(..) still have to count
    acc,                \* the accumulator of exponents' fold
    qr_series,          \* clv: the collected triples
    c,                  \* the state of clv's backward scan
    clv_rev,            \* clv: the records collected by the backward scan
    result,             \* what the call returned
    advanceCalls,       \* calls of teo.iterate made by the estimator
    qrCalls,            \* calls of qr() made by the estimator
    trace,              \* one entry per run of the forward scan's closure
    failedAt,           \* which primitive returned Err, and at which step
    \* lyapunov.rs: a stand-alone Jacobian and one product against a vector
    jac, dx, dotOut

tsVars == <<tsState, tsEmitted, tsCallsAt, tsCalls, tsDirect>>
estVars == <<callee, alpha, duration, pc, ts, q, skip, take, acc, qr_series,
             c, clv_rev, result, advanceCalls, qrCalls, trace, failedAt>>
jacVars == <<jac, dx, dotOut>>
vars == <<teo, x0, tsVars, estVars, jacVars>>

\* ------------------------------------------------------------ adaptor.rs
\* time_series(x0, teo)
time_series(x, t) == [state |-> x, teo |-> t]

\* TimeSeries::iterate: self.teo.iterate(&mut self.state)
TsIterate(t, state) == Advance(t, state)

\* A variant of TsNext that clones the state before advancing it.
TsNextEmitFirst(t, state) == [state |-> TsIterate(t, state), item |-> state]

\* Iterator::next for TimeSeries: self.iterate(); Some(self.state.clone())
TsNext(t, state) ==
    LET s == TsIterate(t, state) IN [state |-> s, item |-> s]

\* The crate is single-threaded and a call of exponents or clv runs to its end:
\* the caller uses its TimeSeries while no call is running.  A call shares no
\* state with the TimeSeries (teo is borrowed immutably, x0 is passed by
\* value), so the order of the two does not matter: a caller that makes a call
\* of exponents or clv makes it before it first advances its TimeSeries.
CallerRuns == pc \in {"idle", "jacobian", "dotted", "returned"}
TimeSeriesFresh == tsCalls = 0

\* A caller pulls the next item.
TimeSeriesNext ==
    /\ CallerRuns
    /\ tsCalls < MaxNext
    /\ LET nx == TsNext(teo, tsState) IN
        /\ tsState' = nx.state
        /\ tsEmitted' = Append(tsEmitted, nx.item)
        /\ tsCallsAt' = Append(tsCallsAt, tsCalls + 1)
    /\ tsCalls' = tsCalls + 1
    /\ UNCHANGED <<teo, x0, tsDirect, estVars, jacVars>>

\* A caller calls the public method iterate() directly: nothing is returned.
TimeSeriesIterate ==
    /\ CallerRuns
    /\ tsCalls < MaxNext
    /\ tsState' = TsIterate(teo, tsState)
    /\ tsCalls' = tsCalls + 1
    /\ tsDirect' = tsDirect + 1
    /\ UNCHANGED <<teo, x0, tsEmitted, tsCallsAt, estVars, jacVars>>

\* ----------------------------------------------------------- lyapunov.rs
\* Array::eye(n): the identity, as a frame Q or as a coefficient matrix C.
\* A frame is kept as the sequence of Jacobians applied to the identity, with
\* a QR step after each; a coefficient matrix as the sequence of factors R
\* solved against the identity, with a normalisation after each.
Eye == <<>>

\* NumDifferentiable::jacobian: fx = self.iterate(x.clone()) is computed once.
Jacobian(t, x, a) == [x |-> x, fx |-> Advance(t, x), alpha |-> a]

\* Dot<Ix2> for Jacobian: the product J * dxs, one vector product per column.
JacobianDot2(j, dxs) == Append(dxs, j)

\* .qr().unwrap() when the factorisation succeeds: (q_next, r).
Qr(prod) == [q |-> prod, r |-> [factor |-> "R", of |-> prod]]

\* A variant of IterateNext that returns the successor (advance, then emit).
IterateNextAdvanceFirst(t, state) ==
    [state |-> Advance(t, state), item |-> Advance(t, state)]

\* itertools::iterate(x0, |y| teo.iterate(y.clone())): next() computes the
\* successor and returns the state it replaces.
IterateNext(t, state) == [state |-> Advance(t, state), item |-> state]

\* A variant of SkipCount without the transient.
SkipCountNone(d) == 0

\* .skip(duration / 10)
SkipCount(d) == d \div 10

\* exponents: .take(duration)
TakeExponents(d) == d

\* A variant of TakeClv without the trailing margin.
TakeClvNoMargin(d) == d

\* clv: .take(duration + duration / 10)
TakeClv(d) == d + d \div 10

\* The closure of exponents' scan: *q = q_next; Some(d), d = ln|diag(r)|.
ScanExponents(qq, x, a, t) ==
    LET f == Qr(JacobianDot2(Jacobian(t, x, a), qq)) IN
    [q |-> f.q, item |-> [lnabsdiag |-> f.r]]

\* A variant of ScanClv that stores the new frame: *q = q_next; Some((x, q.clone(), r)).
ScanClvStoresNext(qq, x, a, t) ==
    LET f == Qr(JacobianDot2(Jacobian(t, x, a), qq)) IN
    [q |-> f.q, item |-> [x |-> x, q |-> f.q, r |-> f.r]]

\* The closure of clv's forward scan: let q = replace(q, q_next); Some((x, q, r)).
ScanClv(qq, x, a, t) ==
    LET f == Qr(JacobianDot2(Jacobian(t, x, a), qq)) IN
    [q |-> f.q, item |-> [x |-> x, q |-> qq, r |-> f.r]]

\* fold(zeros(n), |x, y| x + y) / (teo.get_dt() * duration as f64)
ExponentsResult(sum, t, d) ==
    [kind |-> "exponents", sum |-> sum, div |-> GetDt(t) * d]

\* clv_backward(c, r) when solve_upper succeeds: the column-normalised solution
\* of r * X = c and the reciprocals of its columns' norms.
clv_backward(cc, r) ==
    LET cd == Append(cc, r) IN [c |-> cd, f |-> [recipnorm |-> cd]]

\* A variant of ScanBackward that leaves out *c = c_now.
ScanBackwardStaleC(cc, triple) ==
    LET b == clv_backward(cc, triple.r) IN
    [c |-> cc,
     item |-> [x |-> triple.x, v |-> [q |-> triple.q, c |-> b.c], f |-> b.f]]

\* The closure of clv's backward scan.
ScanBackward(cc, triple) ==
    LET b == clv_backward(cc, triple.r) IN
    [c |-> b.c,
     item |-> [x |-> triple.x, v |-> [q |-> triple.q, c |-> b.c], f |-> b.f]]

Reverse(s) == [i \in 1..Len(s) |-> s[Len(s) + 1 - i]]

\* A variant of ClvResult that trims after reversing: .rev().skip(duration / 10).
ClvResultTrimEarliest(rev, d) ==
    [kind |-> "clv",
     records |-> SubSeq(Reverse(rev), (d \div 10) + 1, Len(rev))]

\* clv_rev.into_iter().skip(duration / 10).rev().collect()
ClvResult(rev, d) ==
    [kind |-> "clv",
     records |-> Reverse(SubSeq(rev, (d \div 10) + 1, Len(rev)))]

NoResult == [kind |-> "none"]
NoFailure == [kind |-> "none", step |-> 0]

\* Calls of teo.iterate in one run of a forward closure and of the iterate
\* adaptor feeding it: the successor, fx, and one per column of q.
CallsPerStep(x) == 2 + Len(x)

\* exponents(teo, x0, alpha, duration) is called.
exponents ==
    /\ pc = "idle"
    /\ TimeSeriesFresh
    /\ \E a \in Alphas, d \in 0..MaxDuration :
        /\ alpha' = a
        /\ duration' = d
        /\ skip' = SkipCount(d)
        /\ take' = TakeExponents(d)
    /\ callee' = "exponents"
    /\ ts' = x0
    /\ q' = Eye
    /\ acc' = <<>>
    /\ pc' = "forward"
    /\ UNCHANGED <<teo, x0, tsVars, jacVars, qr_series, c, clv_rev, result,
                   advanceCalls, qrCalls, trace, failedAt>>

\* clv(teo, x0, alpha, duration) is called.
clv ==
    /\ pc = "idle"
    /\ TimeSeriesFresh
    /\ \E a \in Alphas, d \in 0..MaxDuration :
        /\ alpha' = a
        /\ duration' = d
        /\ skip' = SkipCount(d)
        /\ take' = TakeClv(d)
    /\ callee' = "clv"
    /\ ts' = x0
    /\ q' = Eye
    /\ qr_series' = <<>>
    /\ pc' = "forward"
    /\ UNCHANGED <<teo, x0, tsVars, jacVars, acc, c, clv_rev, result,
                   advanceCalls, qrCalls, trace, failedAt>>

\* One element is pulled through iterate, scan, skip and take, and qr succeeds.
ForwardStep ==
    /\ pc = "forward"
    /\ take > 0
    /\ LET it == IterateNext(teo, ts)
           sc == IF callee = "exponents"
                 THEN ScanExponents(q, it.item, alpha, teo)
                 ELSE ScanClv(q, it.item, alpha, teo)
       IN /\ ts' = it.state
          /\ q' = sc.q
          /\ trace' = Append(trace, [x |-> it.item, q |-> q])
          /\ advanceCalls' = advanceCalls + CallsPerStep(it.item)
          /\ qrCalls' = qrCalls + 1
          /\ IF skip > 0
             THEN /\ skip' = skip - 1
                  /\ UNCHANGED <<take, acc, qr_series>>
             ELSE /\ take' = take - 1
                  /\ skip' = skip
                  /\ IF callee = "exponents"
                     THEN /\ acc' = Append(acc, sc.item)
                          /\ UNCHANGED qr_series
                     ELSE /\ qr_series' = Append(qr_series, sc.item)
                          /\ UNCHANGED acc
    /\ UNCHANGED <<teo, x0, tsVars, jacVars, callee, alpha, duration, pc, c,
                   clv_rev, result, failedAt>>

\* A variant of ForwardQrFails that swallows the Err of a step whose record
\* skip() drops, and goes on with the frame it had.
ForwardQrFailsIgnored ==
    /\ pc = "forward"
    /\ take > 0
    /\ LET it == IterateNext(teo, ts) IN
          /\ ts' = it.state
          /\ trace' = Append(trace, [x |-> it.item, q |-> q])
          /\ advanceCalls' = advanceCalls + CallsPerStep(it.item)
          /\ failedAt' = [kind |-> "qr", step |-> Len(trace) + 1]
    /\ qrCalls' = qrCalls + 1
    /\ IF skip > 0
       THEN skip' = skip - 1 /\ pc' = pc
       ELSE skip' = skip /\ pc' = "panicked"
    /\ UNCHANGED <<teo, x0, tsVars, jacVars, callee, alpha, duration, q,
                   take, acc, qr_series, c, clv_rev, result>>

\* One element is pulled and qr returns Err: unwrap() panics.
ForwardQrFails ==
    /\ pc = "forward"
    /\ take > 0
    /\ LET it == IterateNext(teo, ts) IN
          /\ ts' = it.state
          /\ trace' = Append(trace, [x |-> it.item, q |-> q])
          /\ advanceCalls' = advanceCalls + CallsPerStep(it.item)
          /\ failedAt' = [kind |-> "qr", step |-> Len(trace) + 1]
    /\ qrCalls' = qrCalls + 1
    /\ pc' = "panicked"
    /\ UNCHANGED <<teo, x0, tsVars, jacVars, callee, alpha, duration, q, skip,
                   take, acc, qr_series, c, clv_rev, result>>

\* exponents: take is exhausted, the fold ends and the average is returned.
ExponentsReturn ==
    /\ pc = "forward"
    /\ callee = "exponents"
    /\ take = 0
    /\ result' = ExponentsResult(acc, teo, duration)
    /\ pc' = "returned"
    /\ UNCHANGED <<teo, x0, tsVars, jacVars, callee, alpha, duration, ts, q,
                   skip, take, acc, qr_series, c, clv_rev, advanceCalls,
                   qrCalls, trace, failedAt>>

\* clv: take is exhausted, qr_series is collected and the backward scan starts.
ClvCollected ==
    /\ pc = "forward"
    /\ callee = "clv"
    /\ take = 0
    /\ c' = Eye
    /\ clv_rev' = <<>>
    /\ pc' = "backward"
    /\ UNCHANGED <<teo, x0, tsVars, jacVars, callee, alpha, duration, ts, q,
                   skip, take, acc, qr_series, result, advanceCalls, qrCalls,
                   trace, failedAt>>

\* clv: the backward scan takes the last triple left, and solve_upper succeeds.
BackwardStep ==
    /\ pc = "backward"
    /\ qr_series # <<>>
    /\ LET sb == ScanBackward(c, qr_series[Len(qr_series)]) IN
          /\ c' = sb.c
          /\ clv_rev' = Append(clv_rev, sb.item)
    /\ qr_series' = SubSeq(qr_series, 1, Len(qr_series) - 1)
    /\ UNCHANGED <<teo, x0, tsVars, jacVars, callee, alpha, duration, pc, ts, q,
                   skip, take, acc, result, advanceCalls, qrCalls, trace,
                   failedAt>>

\* clv: solve_upper returns Err: expect("Failed to solve R") panics.
BackwardSolveFails ==
    /\ pc = "backward"
    /\ qr_series # <<>>
    /\ failedAt' = [kind |-> "solve", step |-> Len(clv_rev) + 1]
    /\ pc' = "panicked"
    /\ UNCHANGED <<teo, x0, tsVars, jacVars, callee, alpha, duration, ts, q,
                   skip, take, acc, qr_series, c, clv_rev, result,
                   advanceCalls, qrCalls, trace>>

\* clv: the backward scan is exhausted; trim, reverse and return.
ClvReturn ==
    /\ pc = "backward"
    /\ qr_series = <<>>
    /\ result' = ClvResult(clv_rev, duration)
    /\ pc' = "returned"
    /\ UNCHANGED <<teo, x0, tsVars, jacVars, callee, alpha, duration, ts, q,
                   skip, take, acc, qr_series, c, clv_rev, advanceCalls,
                   qrCalls, trace, failedAt>>

\* ------------------------------------- lyapunov.rs: Dot<Ix1> for Jacobian
\* f64 values that matter here: a finite quotient num / sqrt(densq), an
\* infinity, or NaN.
Finite(num, densq) == [kind |-> "finite", num |-> num, densq |-> densq]
PosInf == [kind |-> "inf", num |-> 1, densq |-> 0]
NegInf == [kind |-> "inf", num |-> -1, densq |-> 0]
NaN == [kind |-> "nan", num |-> 0, densq |-> 0]

RECURSIVE SumSq(_)
SumSq(v) == IF v = <<>> THEN 0 ELSE v[1] * v[1] + SumSq(Tail(v))

\* norm_l2(), kept squared: the square root is monotone and 0 only at 0.
NormL2Sq(v) == SumSq(v)

\* f64::max
Max(a, b) == IF a >= b THEN a ELSE b

\* self.alpha / nrm in IEEE 754: a zero divisor gives an infinity or NaN.
FDiv(a, nrmSq) ==
    IF nrmSq # 0 THEN Finite(a, nrmSq)
    ELSE IF a > 0 THEN PosInf
    ELSE IF a < 0 THEN NegInf
    ELSE NaN

\* One entry of n * dx + &self.x: infinity times zero is NaN.
PerturbedEntry(n, dxi, xi) ==
    IF n.kind = "finite" THEN "finite"
    ELSE IF n.kind = "nan" \/ dxi = 0 THEN "nan"
    ELSE "inf"

\* Jacobian::dot(dx) for a vector dx.
JacobianDot1(j, d) ==
    LET nrm == Max(NormL2Sq(j.x), NormL2Sq(d))
        n == FDiv(j.alpha, nrm)
        x == [i \in 1..Len(d) |-> PerturbedEntry(n, d[i], j.x[i])]
    IN [nrm |-> nrm, n |-> n, x |-> x,
        out |-> [iterate |-> [n |-> n, dx |-> d, x |-> j.x],
                 minus |-> j.fx, over |-> n]]

NoJacobian == [x |-> <<>>, fx |-> <<>>, alpha |-> 0]
NoDot == [nrm |-> 0, n |-> Finite(0, 1), x |-> <<>>,
          out |-> [iterate |-> [n |-> Finite(0, 1), dx |-> <<>>, x |-> <<>>],
                   minus |-> <<>>, over |-> Finite(0, 1)]]

\* teo.jacobian(x0, alpha) is called.
JacobianNew ==
    /\ pc = "idle"
    /\ \E a \in DotAlphas : jac' = Jacobian(teo, x0, a)
    /\ pc' = "jacobian"
    /\ UNCHANGED <<teo, x0, tsVars, dx, dotOut, callee, alpha, duration, ts, q,
                   skip, take, acc, qr_series, c, clv_rev, result,
                   advanceCalls, qrCalls, trace, failedAt>>

\* jac.dot(&dx) is called with a vector of the state's length.
JacobianDotVector ==
    /\ pc = "jacobian"
    /\ \E d \in [1..Len(jac.x) -> DxEntries] :
        /\ dx' = d
        /\ dotOut' = JacobianDot1(jac, d)
    /\ pc' = "dotted"
    /\ UNCHANGED <<teo, x0, tsVars, jac, callee, alpha, duration, ts, q,
                   skip, take, acc, qr_series, c, clv_rev, result,
                   advanceCalls, qrCalls, trace, failedAt>>

\* ------------------------------------------------------- the state machine
Init ==
    /\ teo \in Teos
    /\ x0 \in States
    /\ tsState = time_series(x0, teo).state
    /\ tsEmitted = <<>>
    /\ tsCallsAt = <<>>
    /\ tsCalls = 0
    /\ tsDirect = 0
    /\ callee = "none"
    /\ alpha = 0
    /\ duration = 0
    /\ pc = "idle"
    /\ ts = x0
    /\ q = Eye
    /\ skip = 0
    /\ take = 0
    /\ acc = <<>>
    /\ qr_series = <<>>
    /\ c = Eye
    /\ clv_rev = <<>>
    /\ result = NoResult
    /\ advanceCalls = 0
    /\ qrCalls = 0
    /\ trace = <<>>
    /\ failedAt = NoFailure
    /\ jac = NoJacobian
    /\ dx = <<>>
    /\ dotOut = NoDot

Next ==
    \/ TimeSeriesNext
    \/ TimeSeriesIterate
    \/ exponents
    \/ clv
    \/ ForwardStep
    \/ ForwardQrFails
    \/ ExponentsReturn
    \/ ClvCollected
    \/ BackwardStep
    \/ BackwardSolveFails
    \/ ClvReturn
    \/ JacobianNew
    \/ JacobianDotVector

Spec == Init /\ [][Next]_vars

\* ------------------------------------------------------------ properties
Min(a, b) == IF a <= b THEN a ELSE b

\* k applications of the capability t to x.
RECURSIVE AdvanceN(_, _, _)
AdvanceN(t, x, k) == IF k = 0 THEN x ELSE Advance(t, AdvanceN(t, x, k - 1))

\* burn_in = duration / 10 (integer division)
BurnIn == duration \div 10

\* The factorisation made by the k-th run of the forward closure.
StepQr(k) == Qr(JacobianDot2(Jacobian(teo, trace[k].x, alpha), trace[k].q))

ClvReturned == callee = "clv" /\ pc = "returned"
ExponentsReturned == callee = "exponents" /\ pc = "returned"

\* C1: clv returns exactly `duration` records in chronological order: they are
\* the retained steps (forward steps burn_in+1 .. 2*burn_in+duration) without
\* the burn_in latest ones, and each record's state is one advance after the
\* state of the record before it.
ClvReturnsDurationRecords ==
    ClvReturned =>
        LET recs == result.records IN
        /\ Len(recs) = duration
        /\ \A i \in 1..Len(recs) :
            /\ recs[i].x = trace[BurnIn + i].x
            /\ recs[i].v.q = trace[BurnIn + i].q
        /\ \A i \in 1..(Len(recs) - 1) : recs[i + 1].x = Advance(teo, recs[i].x)

ClvReturnsDurationRecordsWitness ==
    /\ ClvReturned
    /\ duration = 20
    /\ Len(trace) = 24
    /\ result.records[2].x # result.records[1].x

\* C2: exponents and clv reject alpha <= 0 or duration <= 0 before the
\* capability is advanced once and before any QR step, and return no value.
InvalidParametersRejected ==
    (callee \in {"exponents", "clv"} /\ (alpha <= 0 \/ duration <= 0)) =>
        /\ pc # "returned"
        /\ advanceCalls = 0
        /\ qrCalls = 0

\* C3: exponents runs exactly burn_in + duration QR steps on consecutive orbit
\* states, each with the frame of the step before (the identity first); the
\* records of the first burn_in steps are left out, those of the next
\* `duration` steps are summed, and the sum is divided by dt * duration.
ExponentsAveragesAfterBurnIn ==
    ExponentsReturned =>
        /\ Len(trace) = BurnIn + duration
        /\ qrCalls = BurnIn + duration
        /\ Len(trace) >= 1 => trace[1].q = Eye
        /\ \A k \in 1..(Len(trace) - 1) :
            /\ trace[k + 1].x = Advance(teo, trace[k].x)
            /\ trace[k + 1].q = StepQr(k).q
        /\ result.sum = [i \in 1..duration |-> [lnabsdiag |-> StepQr(BurnIn + i).r]]
        /\ result.div = GetDt(teo) * duration

ExponentsAveragesAfterBurnInWitness ==
    /\ ExponentsReturned
    /\ duration = 20
    /\ Len(result.sum) = 20
    /\ Len(trace) = 22

\* C4 as stated: the k-th item next() returns is advance applied k times to
\* the initial state.
KthItemIsKAdvances ==
    \A k \in 1..Len(tsEmitted) : tsEmitted[k] = AdvanceN(teo, x0, k)

\* C4, amended: every next() advances the internal state exactly once and
\* returns a copy of the new state, so the k-th item is advance applied k + j
\* times to the initial state, j being the direct calls of iterate() made
\* before it (k times when there are none), and never the un-advanced state.
TimeSeriesAdvancesThenEmits ==
    /\ tsCalls = Len(tsEmitted) + tsDirect
    /\ tsState = AdvanceN(teo, x0, tsCalls)
    /\ Len(tsCallsAt) = Len(tsEmitted)
    /\ \A k \in 1..Len(tsEmitted) :
        /\ tsEmitted[k] = AdvanceN(teo, x0, tsCallsAt[k])
        /\ tsCallsAt[k] >= k
        /\ tsCallsAt[k] <= k + tsDirect
        /\ k > 1 => tsCallsAt[k] > tsCallsAt[k - 1]
        /\ tsDirect = 0 => tsCallsAt[k] = k

TimeSeriesAdvancesThenEmitsWitness ==
    /\ Len(tsEmitted) = 2
    /\ tsDirect = 1
    /\ tsCallsAt = <<1, 3>>
    /\ tsEmitted[1] # x0
    /\ tsEmitted[2] # tsEmitted[1]

\* C5: once qr (at any forward step, skipped or not) or solve_upper (at any
\* backward step) has returned Err, the call has panicked and nothing is
\* returned.
FailureAbortsRun ==
    failedAt.kind # "none" => (pc = "panicked" /\ result = NoResult)

\* qr fails at a trailing step of clv, whose record would have been trimmed.
FailureAbortsRunWitness ==
    /\ callee = "clv"
    /\ failedAt.kind = "qr"
    /\ BurnIn >= 1
    /\ failedAt.step > 2 * BurnIn + duration - BurnIn
    /\ pc = "panicked"

ForwardDone == callee = "clv" /\ pc = "backward" /\ clv_rev = <<>>

\* C6 as stated: clv's forward pass runs exactly duration + burn_in steps and
\* retains the triple of every step it runs.
ForwardRetainsEveryStep ==
    ForwardDone =>
        /\ Len(trace) = duration + BurnIn
        /\ Len(qr_series) = Len(trace)

\* C6, amended: clv's forward pass runs exactly duration + 2 * burn_in steps;
\* the triples of the first burn_in steps are dropped and those of the last
\* duration + burn_in steps are retained, in order.
ForwardRetainsAfterBurnIn ==
    ForwardDone =>
        /\ Len(trace) = duration + 2 * BurnIn
        /\ qrCalls = duration + 2 * BurnIn
        /\ Len(qr_series) = duration + BurnIn
        /\ \A i \in 1..Len(qr_series) :
            /\ qr_series[i].x = trace[BurnIn + i].x
            /\ qr_series[i].q = trace[BurnIn + i].q
            /\ qr_series[i].r = StepQr(BurnIn + i).r

ForwardRetainsAfterBurnInWitness ==
    /\ ForwardDone
    /\ duration = 20
    /\ Len(trace) = 24
    /\ Len(qr_series) = 22

\* C7 as stated: the states at which exponents and clv build the Jacobian are
\* the items a TimeSeries over the same x0 and capability returns (the first
\* one advance(x0)).
EstimatorStatesAreTimeSeriesItems ==
    tsDirect = 0 =>
        \A k \in 1..Min(Len(trace), Len(tsEmitted)) : trace[k].x = tsEmitted[k]

\* C7, amended: the estimators emit, then advance: the first state they
\* process is x0 itself, and the (k+1)-th is the k-th item of a TimeSeries
\* over the same x0 and capability that is driven through next() alone.
EstimatorStatesLeadTimeSeriesByOne ==
    /\ Len(trace) >= 1 => trace[1].x = x0
    /\ tsDirect = 0 =>
        \A k \in 1..Min(Len(trace) - 1, Len(tsEmitted)) :
            trace[k + 1].x = tsEmitted[k]

EstimatorStatesLeadTimeSeriesByOneWitness ==
    /\ tsDirect = 0
    /\ Len(tsEmitted) = 3
    /\ Len(trace) >= 4
    /\ trace[1].x # tsEmitted[1]
    /\ trace[2].x = tsEmitted[1]

\* C8: when x and dx both have zero norm, the product against dx uses a small
\* positive floor for norm, so alpha / norm is finite.
ZeroNormIsFloored ==
    (pc = "dotted" /\ NormL2Sq(jac.x) = 0 /\ NormL2Sq(dx) = 0) =>
        /\ dotOut.nrm > 0
        /\ dotOut.n.kind = "finite"

\* The chronological forward step of the j-th record of the backward scan.
StepOfRev(j) == Len(trace) + 1 - j

\* C9: the backward scan visits the retained triples latest first, starting
\* from C = identity; at each it solves R * C_now = C, normalises, emits
\* (x, Q * C_now, f) and keeps C_now, so the C used at a step is the C_now of
\* the chronologically next retained step, trimmed records included.
BackwardRecursion ==
    (callee = "clv" /\ pc \in {"backward", "returned"}) =>
        /\ \A j \in 1..Len(clv_rev) :
            LET t == StepOfRev(j)
                b == clv_backward(IF j = 1 THEN Eye ELSE clv_rev[j - 1].v.c,
                                  StepQr(t).r)
            IN /\ clv_rev[j].x = trace[t].x
               /\ clv_rev[j].v = [q |-> trace[t].q, c |-> b.c]
               /\ clv_rev[j].f = b.f
        /\ c = IF clv_rev = <<>> THEN Eye ELSE clv_rev[Len(clv_rev)].v.c
        /\ pc = "returned" =>
            /\ Len(clv_rev) = duration + BurnIn
            /\ \A i \in 1..duration :
                result.records[i] = clv_rev[Len(clv_rev) + 1 - i]

BackwardRecursionWitness ==
    /\ ClvReturned
    /\ duration = 20
    /\ Len(clv_rev) = 22
    /\ Len(result.records[20].v.c) = 3
    /\ Len(result.records[1].v.c) = 22

\* C10: the Q of a stored triple is the frame the Jacobian at its x was
\* multiplied with (the identity at the first step run), and its R is that
\* step's factor: J(x) * Q_stored = Q_next * R, Q_next being the Q stored for
\* the next step.
StoredFrameIsStepInput ==
    (callee = "clv" /\ pc \in {"forward", "backward"}) =>
        /\ Len(trace) >= 1 => trace[1].q = Eye
        /\ \A i \in 1..Len(qr_series) :
            LET f == Qr(JacobianDot2(Jacobian(teo, qr_series[i].x, alpha),
                                     qr_series[i].q))
            IN /\ qr_series[i].q = trace[BurnIn + i].q
               /\ qr_series[i].r = f.r
               /\ i < Len(qr_series) => qr_series[i + 1].q = f.q

StoredFrameIsStepInputWitness ==
    /\ callee = "clv"
    /\ pc = "forward"
    /\ BurnIn = 2
    /\ Len(qr_series) >= 3
    /\ qr_series[1].q # Eye
    /\ qr_series[2].q # qr_series[1].q

====
